---------------------------- MODULE Spec2Model ----------------------------
(***************************************************************************)
(* Model of smhi_lib.py: the SMHI forecast client.                         *)
(*                                                                         *)
(*   _get_forecast      the JSON -> SmhiForecast list mapper               *)
(*   ShmiAPI            the network fetcher (blocking and suspending)      *)
(*   Smhi               the facade that fetches, then maps                 *)
(*                                                                         *)
(* Representation of JSON:                                                 *)
(*   - a JSON object is a record; a key the object lacks is a field the    *)
(*     record lacks, so d['k'] raises KeyError iff "k" \notin DOMAIN d;    *)
(*   - a JSON array is a sequence;                                         *)
(*   - a JSON number x is the integer 2*x (numbers are multiples of 1/2),  *)
(*     so 42 stands for 21 and -5 for -2.5; int() is modelled by IntCast.  *)
(* Python integers (the fields of SmhiForecast) are plain integers.        *)
(***************************************************************************)
EXTENDS Integers, Sequences, FiniteSets

VARIABLES
    api_result,   \* MapperSpec/CloudSpec: the argument of _get_forecast
    mapped,       \* MapperSpec/CloudSpec: NotCalled, or the outcome of the call
    constructed,  \* Spec: the arguments Smhi.__init__ was given
    smhi,         \* Spec: the Smhi object: _longitude, _latitude, _api
    calls,        \* Spec: the calls made on smhi, in the order they began
    sessions,     \* Spec: the aiohttp sessions in existence, by identity
    fetchLog      \* Spec: the invocations of the fetcher, in order

mapperVars == <<api_result, mapped>>

facadeVars == <<constructed, smhi, calls, sessions, fetchLog>>

vars == <<api_result, mapped, constructed, smhi, calls, sessions, fetchLog>>

(***************************************************************************)
(* Outcomes of a Python call: a returned value or a raised exception.      *)
(***************************************************************************)
Return(v) == [ok |-> TRUE, value |-> v, error |-> "none"]

Raise(e) == [ok |-> FALSE, value |-> <<>>, error |-> e]

NotCalled == [ok |-> FALSE, value |-> <<>>, error |-> "not called"]

(***************************************************************************)
(* int(x) of a JSON number: truncation toward zero.                        *)
(***************************************************************************)
IntCast(v) == IF v >= 0 THEN v \div 2 ELSE -((-v) \div 2)

(***************************************************************************)
(* round(n / d) for d > 0 as Python 3 computes it: to the nearest integer, *)
(* a tie going to the even neighbour.                                      *)
(***************************************************************************)
RoundHalfUp(n, d) == (2 * n + d) \div (2 * d)

round(n, d) ==
    LET q == n \div d
        r == n % d
    IN  IF 2 * r < d THEN q
        ELSE IF 2 * r > d THEN q + 1
        ELSE IF q % 2 = 0 THEN q ELSE q + 1

(***************************************************************************)
(* SmhiForecast.__init__: six stored fields, read back by the properties.  *)
(***************************************************************************)
SmhiForecast(temperature, humidity, pressure, thunder, cloudiness, symbol) ==
    [temperature |-> temperature, humidity |-> humidity, pressure |-> pressure,
     thunder |-> thunder, cloudiness |-> cloudiness, symbol |-> symbol]

(***************************************************************************)
(* The six locals of one iteration of the outer loop, lines 155-160.       *)
(***************************************************************************)
ZeroLocals ==
    [temperature |-> 0, pressure |-> 0, humidity |-> 0,
     thunder |-> 0, symbol |-> 0, cloudiness |-> 0]

(***************************************************************************)
(* Lines 172-176: octas to percent.                                        *)
(***************************************************************************)
CloudinessHalfUp(octa) ==
    IF 0 <= octa /\ octa <= 8 THEN RoundHalfUp(100 * octa, 8) ELSE 100

Cloudiness(octa) ==
    IF 0 <= octa /\ octa <= 8 THEN round(100 * octa, 8) ELSE 100

(***************************************************************************)
(* Lines 163-178: the if/elif chain on one parameter.                      *)
(***************************************************************************)
ApplyParamSwapped(loc, param) ==
    LET first == IntCast(param.values[1])
    IN  IF param.name = "t" THEN [loc EXCEPT !.humidity = first]
        ELSE IF param.name = "r" THEN [loc EXCEPT !.temperature = first]
        ELSE IF param.name = "msl" THEN [loc EXCEPT !.pressure = first]
        ELSE IF param.name = "tstm" THEN [loc EXCEPT !.thunder = first]
        ELSE IF param.name = "tcc_mean"
            THEN [loc EXCEPT !.cloudiness = Cloudiness(first)]
        ELSE IF param.name = "Wsymb2" THEN [loc EXCEPT !.symbol = first]
        ELSE loc

ApplyParamElse(loc, param) ==
    LET first == IntCast(param.values[1])
    IN  IF param.name = "t" THEN [loc EXCEPT !.temperature = first]
        ELSE IF param.name = "r" THEN [loc EXCEPT !.humidity = first]
        ELSE IF param.name = "msl" THEN [loc EXCEPT !.pressure = first]
        ELSE IF param.name = "tstm" THEN [loc EXCEPT !.thunder = first]
        ELSE IF param.name = "tcc_mean"
            THEN [loc EXCEPT !.cloudiness = Cloudiness(first)]
        ELSE [loc EXCEPT !.symbol = first]

ApplyParam(loc, param) ==
    IF param.name = "t"
        THEN [loc EXCEPT !.temperature = IntCast(param.values[1])]
    ELSE IF param.name = "r"
        THEN [loc EXCEPT !.humidity = IntCast(param.values[1])]
    ELSE IF param.name = "msl"
        THEN [loc EXCEPT !.pressure = IntCast(param.values[1])]
    ELSE IF param.name = "tstm"
        THEN [loc EXCEPT !.thunder = IntCast(param.values[1])]
    ELSE IF param.name = "tcc_mean"
        THEN [loc EXCEPT !.cloudiness = Cloudiness(IntCast(param.values[1]))]
    ELSE IF param.name = "Wsymb2"
        THEN [loc EXCEPT !.symbol = IntCast(param.values[1])]
    ELSE loc

(***************************************************************************)
(* Line 162: the inner loop over forecast['parameters'], from index j.     *)
(***************************************************************************)
RECURSIVE ScanParameters(_, _, _)
ScanParameters(parameters, j, loc) ==
    IF j > Len(parameters) THEN loc
    ELSE ScanParameters(parameters, j + 1, ApplyParam(loc, parameters[j]))

(***************************************************************************)
(* Lines 154-181: the outer loop from index i with the list built so far;  *)
(* a missing 'parameters' raises KeyError out of the function, and the     *)
(* local list is lost with the frame.                                      *)
(***************************************************************************)
RECURSIVE MapTimeSeriesPrepend(_, _, _)
MapTimeSeriesPrepend(timeSeries, i, forecasts) ==
    IF i > Len(timeSeries) THEN Return(forecasts)
    ELSE IF "parameters" \notin DOMAIN timeSeries[i] THEN Raise("KeyError")
    ELSE LET loc == ScanParameters(timeSeries[i].parameters, 1, ZeroLocals)
         IN  MapTimeSeriesPrepend(timeSeries, i + 1,
                 <<SmhiForecast(loc.temperature, loc.humidity, loc.pressure,
                                loc.thunder, loc.cloudiness, loc.symbol)>>
                 \o forecasts)

RECURSIVE MapTimeSeriesCarry(_, _, _)
MapTimeSeriesCarry(timeSeries, i, forecasts) ==
    IF i > Len(timeSeries) THEN Return(forecasts)
    ELSE IF "parameters" \notin DOMAIN timeSeries[i] THEN Raise("KeyError")
    ELSE LET start == IF forecasts = <<>> THEN ZeroLocals
                      ELSE forecasts[Len(forecasts)]
             loc == ScanParameters(timeSeries[i].parameters, 1, start)
         IN  MapTimeSeriesCarry(timeSeries, i + 1,
                 Append(forecasts,
                     SmhiForecast(loc.temperature, loc.humidity, loc.pressure,
                                  loc.thunder, loc.cloudiness, loc.symbol)))

RECURSIVE MapTimeSeriesPartial(_, _, _)
MapTimeSeriesPartial(timeSeries, i, forecasts) ==
    IF i > Len(timeSeries) THEN Return(forecasts)
    ELSE IF "parameters" \notin DOMAIN timeSeries[i] THEN Return(forecasts)
    ELSE LET loc == ScanParameters(timeSeries[i].parameters, 1, ZeroLocals)
         IN  MapTimeSeriesPartial(timeSeries, i + 1,
                 Append(forecasts,
                     SmhiForecast(loc.temperature, loc.humidity, loc.pressure,
                                  loc.thunder, loc.cloudiness, loc.symbol)))

RECURSIVE MapTimeSeries(_, _, _)
MapTimeSeries(timeSeries, i, forecasts) ==
    IF i > Len(timeSeries) THEN Return(forecasts)
    ELSE IF "parameters" \notin DOMAIN timeSeries[i] THEN Raise("KeyError")
    ELSE LET loc == ScanParameters(timeSeries[i].parameters, 1, ZeroLocals)
         IN  MapTimeSeries(timeSeries, i + 1,
                 Append(forecasts,
                     SmhiForecast(loc.temperature, loc.humidity, loc.pressure,
                                  loc.thunder, loc.cloudiness, loc.symbol)))

(***************************************************************************)
(* _get_forecast, lines 149-181.                                           *)
(***************************************************************************)
_get_forecast(doc) ==
    IF "timeSeries" \notin DOMAIN doc THEN Raise("KeyError")
    ELSE MapTimeSeries(doc.timeSeries, 1, <<>>)

(***************************************************************************)
(* Input documents of the mapper.                                          *)
(***************************************************************************)
MaxEntries == 2   \* entries of timeSeries

MaxParams == 4    \* parameters of one document, over all its entries

Param(name, values) == [name |-> name, values |-> values]

\* t=21, t=-2.5 (two values), r=60, msl=1013, tstm=5.5, tcc_mean=8,
\* Wsymb2=1, foo=7
ParamUniverse ==
    { Param("t", <<42>>), Param("t", <<-5, 18>>), Param("r", <<120>>),
      Param("msl", <<2026>>), Param("tstm", <<11>>), Param("tcc_mean", <<16>>),
      Param("Wsymb2", <<2>>), Param("foo", <<14>>) }

KnownNames == {"t", "r", "msl", "tstm", "tcc_mean", "Wsymb2"}

Entry(parameters) == [validTime |-> 0, parameters |-> parameters]

EntryNoParameters == [validTime |-> 0]

DocNoTimeSeries == [approvedTime |-> 0]

Doc(timeSeries) == [approvedTime |-> 0, timeSeries |-> timeSeries]

\* A shape gives each entry its number of parameters, or -1 for an entry
\* without the 'parameters' key.
RECURSIVE ShapeSize(_, _)
ShapeSize(shape, n) ==
    IF n = 0 THEN 0
    ELSE ShapeSize(shape, n - 1) + (IF shape[n] < 0 THEN 0 ELSE shape[n])

Shapes(n, k) == { sh \in [1..n -> -1..k] : ShapeSize(sh, n) <= k }

\* the time series of the given shape whose parameters, in order, are flat
SeriesOf(shape, flat) ==
    [ i \in DOMAIN shape |->
        IF shape[i] < 0 THEN EntryNoParameters
        ELSE Entry(SubSeq(flat, ShapeSize(shape, i - 1) + 1,
                                ShapeSize(shape, i))) ]

(***************************************************************************)
(* MapperSpec: _get_forecast applied once to a document of the bounded     *)
(* family above, or to the document of the end-to-end scenario.            *)
(***************************************************************************)
ExampleDoc ==
    Doc(<<Entry(<<Param("t", <<42>>), Param("r", <<120>>),
                  Param("tcc_mean", <<16>>), Param("Wsymb2", <<2>>)>>)>>)

\* no Smhi object takes part in MapperSpec and CloudSpec
IdleFacade ==
    /\ constructed = <<>>
    /\ smhi = <<>>
    /\ calls = <<>>
    /\ sessions = <<>>
    /\ fetchLog = <<>>

MapperInit ==
    /\ \/ api_result = DocNoTimeSeries
       \/ api_result = ExampleDoc
       \/ \E n \in 0..MaxEntries : \E shape \in Shapes(n, MaxParams) :
            \E flat \in [1..ShapeSize(shape, n) -> ParamUniverse] :
                api_result = Doc(SeriesOf(shape, flat))
    /\ mapped = NotCalled
    /\ IdleFacade

CallGetForecast ==
    /\ mapped = NotCalled
    /\ mapped' = _get_forecast(api_result)
    /\ UNCHANGED <<api_result, facadeVars>>

MapperNext == CallGetForecast

MapperSpec == MapperInit /\ [][MapperNext]_vars

(***************************************************************************)
(* CloudSpec: _get_forecast applied once to a one-entry document whose     *)
(* parameters are tcc_mean readings, from -2.0 to 10.0 in steps of 0.5 and *)
(* two far outliers, possibly next to a temperature.                       *)
(***************************************************************************)
MaxCloudParams == 2

RawOctas == (-4..20) \cup {-200, 200}

CloudUniverse ==
    { Param("tcc_mean", <<v>>) : v \in RawOctas } \cup { Param("t", <<42>>) }

CloudInit ==
    /\ \E m \in 0..MaxCloudParams : \E ps \in [1..m -> CloudUniverse] :
            api_result = Doc(<<Entry(ps)>>)
    /\ mapped = NotCalled
    /\ IdleFacade

CloudSpec == CloudInit /\ [][MapperNext]_vars

(***************************************************************************)
(* The network, as ShmiAPI sees it.  A reply to a GET is a connection      *)
(* failure or a status with a body; a body is the text of a JSON document  *)
(* or text that json.loads rejects.                                        *)
(***************************************************************************)
HTTP_OK == 200

NoSession == 0      \* session=None

CallerSession == 1  \* the identity of the session the caller owns

MaxCalls == 2       \* calls made on one Smhi object

TwoEntryDoc ==
    Doc(<<Entry(<<Param("t", <<42>>), Param("tcc_mean", <<7>>),
                  Param("foo", <<14>>)>>),
          Entry(<<Param("r", <<120>>)>>)>>)

BrokenSecondEntryDoc ==
    Doc(<<Entry(<<Param("t", <<42>>)>>), EntryNoParameters>>)

FacadeDocs == {ExampleDoc, TwoEntryDoc, DocNoTimeSeries, BrokenSecondEntryDoc}

JsonText(doc) == [valid |-> TRUE, json |-> doc]

Garbage == [valid |-> FALSE, json |-> DocNoTimeSeries]

Bodies == { JsonText(d) : d \in FacadeDocs } \cup {Garbage}

Statuses == {HTTP_OK, 202, 404}

Longitudes == {"16.15", "17.00"}

Latitudes == {"58.57", "59.00"}

\* json.loads, lines 111 and 126
json_loads(data) ==
    IF data.valid THEN Return(data.json) ELSE Raise("JSONDecodeError")

\* url_template.format(longitude, latitude), lines 107 and 118
ApiUrl(longitude, latitude) == [lon |-> longitude, lat |-> latitude]

(***************************************************************************)
(* urlopen, line 109: URLError when the connection fails, HTTPError on a   *)
(* status outside 200..299, the response otherwise.                        *)
(***************************************************************************)
urlopen(connected, status) ==
    IF ~connected THEN Raise("URLError")
    ELSE IF status < 200 \/ status > 299 THEN Raise("HTTPError")
    ELSE Return(status)

(***************************************************************************)
(* ShmiAPI.get_forecast_api, lines 105-113, as a function of the reply.    *)
(***************************************************************************)
ShmiAPI_get_forecast_api(connected, status, body) ==
    IF urlopen(connected, status).ok THEN json_loads(body)
    ELSE urlopen(connected, status)

(***************************************************************************)
(* Line 124: assert response.status == 200.                                *)
(***************************************************************************)
StatusAssertedAny2xx(status) == 200 <= status /\ status <= 299

StatusAsserted(status) == status = HTTP_OK

(***************************************************************************)
(* Smhi.__init__, lines 133-136.                                           *)
(***************************************************************************)
SmhiObject(longitude, latitude, api) ==
    [longitude |-> longitude, latitude |-> latitude, api |-> api]

RealApi == [kind |-> "ShmiAPI", json |-> DocNoTimeSeries]

MockApi(doc) == [kind |-> "mock", json |-> doc]

(***************************************************************************)
(* The arguments the facade hands to the fetcher, lines 140 and 145.       *)
(***************************************************************************)
FetchArgsSwapped == [longitude |-> smhi.latitude, latitude |-> smhi.longitude]

FetchArgs == [longitude |-> smhi.longitude, latitude |-> smhi.latitude]

(***************************************************************************)
(* Lines 141 and 146: what a call returns once the fetcher has returned    *)
(* json_data; an exception of the fetcher or of the mapper passes through. *)
(***************************************************************************)
get_forecast_return(fetched) ==
    IF fetched.ok THEN _get_forecast(fetched.value) ELSE fetched

async_get_forecast_return_tail(fetched) ==
    LET r == get_forecast_return(fetched)
    IN  IF r.ok /\ r.value # <<>> THEN Return(Tail(r.value)) ELSE r

async_get_forecast_return(fetched) ==
    IF fetched.ok THEN _get_forecast(fetched.value) ELSE fetched

(***************************************************************************)
(* State of the facade specification.                                      *)
(***************************************************************************)
Call(mode, session, pc, used, status, bodyRead, fetched, outcome) ==
    [mode |-> mode, session |-> session, pc |-> pc, used |-> used,
     status |-> status, bodyRead |-> bodyRead, fetched |-> fetched,
     outcome |-> outcome]

Session(owner, closed, gets) ==
    [owner |-> owner, closed |-> closed, gets |-> gets]

Fetch(method, args, session) ==
    [method |-> method, longitude |-> args.longitude,
     latitude |-> args.latitude, session |-> session]

Init ==
    /\ api_result = DocNoTimeSeries
    /\ mapped = NotCalled
    /\ \E lon \in Longitudes, lat \in Latitudes :
       \E api \in {RealApi} \cup { MockApi(d) : d \in FacadeDocs } :
          /\ constructed = SmhiObject(lon, lat, api)
          /\ smhi = SmhiObject(lon, lat, api)
    /\ calls = <<>>
    /\ sessions = <<Session("caller", FALSE, <<>>)>>
    /\ fetchLog = <<>>

(***************************************************************************)
(* Smhi.get_forecast, line 140: the fetcher is invoked.  The calling       *)
(* thread then waits inside the fetcher while other threads run.           *)
(***************************************************************************)
get_forecast_start ==
    /\ Len(calls) < MaxCalls
    /\ calls' = Append(calls,
           Call("sync", NoSession,
                IF smhi.api.kind = "ShmiAPI" THEN "in_urlopen" ELSE "in_double",
                NoSession, 0, FALSE, NotCalled, NotCalled))
    /\ fetchLog' = Append(fetchLog, Fetch("get_forecast_api", FetchArgs, NoSession))
    /\ UNCHANGED <<mapperVars, constructed, smhi, sessions>>

(***************************************************************************)
(* Line 109: urlopen of call c returns the response or raises; an          *)
(* exception leaves get_forecast_api and get_forecast.                     *)
(***************************************************************************)
get_forecast_urlopen(c) ==
    /\ calls[c].pc = "in_urlopen"
    /\ \E connected \in BOOLEAN, status \in Statuses :
         LET opened == urlopen(connected, status)
         IN  IF opened.ok
             THEN calls' = [calls EXCEPT ![c].pc = "in_read",
                                         ![c].status = status,
                                         ![c].bodyRead = TRUE]
             ELSE calls' = [calls EXCEPT
                      ![c].pc = "done",
                      ![c].status = IF connected THEN status ELSE 0,
                      ![c].fetched = opened,
                      ![c].outcome = get_forecast_return(opened)]
    /\ UNCHANGED <<mapperVars, constructed, smhi, sessions, fetchLog>>

(***************************************************************************)
(* Lines 110-113 and 141: response.read() of call c has the body; it is    *)
(* decoded, parsed and mapped.                                             *)
(***************************************************************************)
get_forecast_read(c) ==
    /\ calls[c].pc = "in_read"
    /\ \E body \in Bodies :
         LET fetched == ShmiAPI_get_forecast_api(TRUE, calls[c].status, body)
         IN  calls' = [calls EXCEPT ![c].pc = "done",
                                    ![c].fetched = fetched,
                                    ![c].outcome = get_forecast_return(fetched)]
    /\ UNCHANGED <<mapperVars, constructed, smhi, sessions, fetchLog>>

(***************************************************************************)
(* Lines 140-141 on a test double: the double returns its document to      *)
(* blocking call c, which maps it.                                         *)
(***************************************************************************)
get_forecast_mock_returns(c) ==
    /\ calls[c].pc = "in_double"
    /\ calls[c].mode = "sync"
    /\ LET fetched == Return(smhi.api.json)
       IN  calls' = [calls EXCEPT ![c].pc = "done",
                                  ![c].fetched = fetched,
                                  ![c].outcome = get_forecast_return(fetched)]
    /\ UNCHANGED <<mapperVars, constructed, smhi, sessions, fetchLog>>

(***************************************************************************)
(* Smhi.async_get_forecast on a test double, line 145: the session is      *)
(* handed over with the coordinates.                                       *)
(***************************************************************************)
async_get_forecast_mock_start ==
    /\ smhi.api.kind = "mock"
    /\ Len(calls) < MaxCalls
    /\ \E session \in {NoSession, CallerSession} :
         /\ calls' = Append(calls,
               Call("async", session, "in_double", NoSession, 0, FALSE,
                    NotCalled, NotCalled))
         /\ fetchLog' = Append(fetchLog,
               Fetch("async_get_forecast_api", FetchArgs, session))
    /\ UNCHANGED <<mapperVars, constructed, smhi, sessions>>

(***************************************************************************)
(* Lines 145-146 on a test double: the double's coroutine returns its      *)
(* document to suspending call c, which maps it.                           *)
(***************************************************************************)
async_get_forecast_mock_returns(c) ==
    /\ calls[c].pc = "in_double"
    /\ calls[c].mode = "async"
    /\ LET fetched == Return(smhi.api.json)
       IN  calls' = [calls EXCEPT ![c].pc = "done",
                                  ![c].fetched = fetched,
                                  ![c].outcome = async_get_forecast_return(fetched)]
    /\ UNCHANGED <<mapperVars, constructed, smhi, sessions, fetchLog>>

(***************************************************************************)
(* Smhi.async_get_forecast on the real fetcher, up to the first            *)
(* suspension: lines 145, 118-123.  Without a session a ClientSession is   *)
(* created; the GET goes out on the session in hand.                       *)
(***************************************************************************)
async_get_forecast_start ==
    /\ smhi.api.kind = "ShmiAPI"
    /\ Len(calls) < MaxCalls
    /\ \E session \in {NoSession, CallerSession} :
         LET c == Len(calls) + 1
             created == IF session = NoSession
                        THEN Append(sessions, Session("private", FALSE, <<>>))
                        ELSE sessions
             used == IF session = NoSession THEN Len(created) ELSE session
             get == [call |-> c, url |-> ApiUrl(FetchArgs.longitude,
                                                FetchArgs.latitude)]
         IN  /\ sessions' = [created EXCEPT ![used].gets = Append(@, get)]
             /\ calls' = Append(calls,
                   Call("async", session, "awaiting_response", used, 0, FALSE,
                        NotCalled, NotCalled))
             /\ fetchLog' = Append(fetchLog,
                   Fetch("async_get_forecast_api", FetchArgs, session))
    /\ UNCHANGED <<mapperVars, constructed, smhi>>

(***************************************************************************)
(* The GET of call c fails: ClientError leaves async with, line 123.       *)
(***************************************************************************)
async_connection_fails(c) ==
    /\ calls[c].pc = "awaiting_response"
    /\ LET fetched == Raise("ClientError")
       IN  calls' = [calls EXCEPT ![c].pc = "done",
                                  ![c].fetched = fetched,
                                  ![c].outcome = async_get_forecast_return(fetched)]
    /\ UNCHANGED <<mapperVars, constructed, smhi, sessions, fetchLog>>

(***************************************************************************)
(* The response of call c arrives, lines 123-125: the assertion, then the  *)
(* second suspension, on response.text().  Leaving async with releases the *)
(* response; the session is not touched.                                   *)
(***************************************************************************)
async_response(c) ==
    /\ calls[c].pc = "awaiting_response"
    /\ \E status \in Statuses :
         IF StatusAsserted(status)
         THEN calls' = [calls EXCEPT ![c].pc = "awaiting_body",
                                     ![c].status = status,
                                     ![c].bodyRead = TRUE]
         ELSE LET fetched == Raise("AssertionError")
              IN  calls' = [calls EXCEPT
                      ![c].pc = "done",
                      ![c].status = status,
                      ![c].fetched = fetched,
                      ![c].outcome = async_get_forecast_return(fetched)]
    /\ UNCHANGED <<mapperVars, constructed, smhi, sessions, fetchLog>>

(***************************************************************************)
(* The body of call c has been read, lines 125-126 and 146.                *)
(***************************************************************************)
async_body(c) ==
    /\ calls[c].pc = "awaiting_body"
    /\ \E body \in Bodies :
         LET fetched == json_loads(body)
         IN  calls' = [calls EXCEPT ![c].pc = "done",
                                    ![c].fetched = fetched,
                                    ![c].outcome = async_get_forecast_return(fetched)]
    /\ UNCHANGED <<mapperVars, constructed, smhi, sessions, fetchLog>>

Next ==
    \/ get_forecast_start
    \/ \E c \in DOMAIN calls : get_forecast_urlopen(c)
    \/ \E c \in DOMAIN calls : get_forecast_read(c)
    \/ \E c \in DOMAIN calls : get_forecast_mock_returns(c)
    \/ async_get_forecast_mock_start
    \/ \E c \in DOMAIN calls : async_get_forecast_mock_returns(c)
    \/ async_get_forecast_start
    \/ \E c \in DOMAIN calls : async_connection_fails(c)
    \/ \E c \in DOMAIN calls : async_response(c)
    \/ \E c \in DOMAIN calls : async_body(c)

Spec == Init /\ [][Next]_vars

(***************************************************************************)
(* What the claims speak of.                                               *)
(***************************************************************************)
Called == mapped # NotCalled

WellFormed(doc) ==
    /\ "timeSeries" \in DOMAIN doc
    /\ \A i \in DOMAIN doc.timeSeries : "parameters" \in DOMAIN doc.timeSeries[i]

HasParam(parameters, name) ==
    \E j \in DOMAIN parameters : parameters[j].name = name

\* the last parameter of that name: the one whose assignment is not overwritten
LastParam(parameters, name) ==
    LET j == CHOOSE k \in DOMAIN parameters :
                 /\ parameters[k].name = name
                 /\ \A l \in DOMAIN parameters :
                        parameters[l].name = name => l <= k
    IN  parameters[j]

\* c is n/d rounded to the nearest integer, a tie to the even one
IsRounded(c, n, d) ==
    LET twice == IF c * d >= n THEN 2 * (c * d - n) ELSE 2 * (n - c * d)
    IN  /\ twice <= d
        /\ twice = d => c % 2 = 0

FieldValue(rec, name) ==
    IF name = "t" THEN rec.temperature
    ELSE IF name = "r" THEN rec.humidity
    ELSE IF name = "msl" THEN rec.pressure
    ELSE IF name = "tstm" THEN rec.thunder
    ELSE IF name = "tcc_mean" THEN rec.cloudiness
    ELSE rec.symbol

\* C1: on a document with N entries, each with a parameters list, the
\* call returns exactly N records and the i-th record is the record of the
\* i-th entry alone (the only record of the document holding just it).
C1_OneRecordPerEntryInOrder ==
    (Called /\ WellFormed(api_result)) =>
        /\ mapped.ok
        /\ Len(mapped.value) = Len(api_result.timeSeries)
        /\ \A i \in DOMAIN api_result.timeSeries :
              LET alone == _get_forecast(Doc(<<api_result.timeSeries[i]>>))
              IN  alone.ok /\ Len(alone.value) = 1
                  /\ mapped.value[i] = alone.value[1]

C1_Witness ==
    /\ Called /\ mapped.ok
    /\ Len(api_result.timeSeries) = 2
    /\ Len(mapped.value) = 2
    /\ mapped.value[1] # mapped.value[2]
    /\ mapped.value[1].temperature = 21
    /\ mapped.value[2].humidity = 60

\* C2: the cloudiness of an entry with a tcc_mean parameter is, for
\* octa = int(first value): 100*octa/8 rounded to the nearest integer when
\* 0 <= octa <= 8 (0 -> 0, 4 -> 50, 8 -> 100), and 100 for any other octa.
C2_CloudinessFromOcta ==
    (Called /\ HasParam(api_result.timeSeries[1].parameters, "tcc_mean")) =>
        LET ps == api_result.timeSeries[1].parameters
            octa == IntCast(LastParam(ps, "tcc_mean").values[1])
            c == mapped.value[1].cloudiness
        IN  /\ mapped.ok
            /\ (0 <= octa /\ octa <= 8) => IsRounded(c, 100 * octa, 8)
            /\ octa = 0 => c = 0
            /\ octa = 4 => c = 50
            /\ octa = 8 => c = 100
            /\ (octa < 0 \/ octa > 8) => c = 100

\* a reading of 9 octas overwritten by one of 1.5: int gives 1, 12 percent
C2_Witness ==
    /\ Called /\ mapped.ok
    /\ Len(api_result.timeSeries[1].parameters) = 2
    /\ api_result.timeSeries[1].parameters[1] = Param("tcc_mean", <<18>>)
    /\ api_result.timeSeries[1].parameters[2] = Param("tcc_mean", <<3>>)
    /\ mapped.value[1].cloudiness = 12

\* C3: a present parameter t, r, msl, tstm or Wsymb2 sets its own field to
\* int(first value), unscaled; the scenario document maps to exactly the
\* record (21, 60, 0, 0, 100, 1).
C3_DirectFields ==
    Called =>
        /\ WellFormed(api_result) =>
             \A i \in DOMAIN api_result.timeSeries :
               \A name \in {"t", "r", "msl", "tstm", "Wsymb2"} :
                 LET ps == api_result.timeSeries[i].parameters
                 IN  HasParam(ps, name) =>
                       FieldValue(mapped.value[i], name)
                           = IntCast(LastParam(ps, name).values[1])
        /\ api_result = ExampleDoc =>
             /\ mapped.ok
             /\ mapped.value = <<[temperature |-> 21, humidity |-> 60,
                                  pressure |-> 0, thunder |-> 0,
                                  cloudiness |-> 100, symbol |-> 1]>>

C3_Witness ==
    /\ Called /\ api_result = ExampleDoc
    /\ Len(mapped.value) = 1
    /\ mapped.value[1].temperature = 21
    /\ mapped.value[1].symbol = 1

\* C4: a field whose parameter name is absent from an entry is 0 in that
\* entry's record, whatever the earlier entries held.
C4_AbsentIsZero ==
    (Called /\ WellFormed(api_result)) =>
        \A i \in DOMAIN api_result.timeSeries :
          \A name \in KnownNames :
            ~HasParam(api_result.timeSeries[i].parameters, name) =>
                FieldValue(mapped.value[i], name) = 0

\* the second entry lacks t although the first one set it
C4_Witness ==
    /\ Called /\ mapped.ok
    /\ Len(api_result.timeSeries) = 2
    /\ HasParam(api_result.timeSeries[1].parameters, "t")
    /\ ~HasParam(api_result.timeSeries[2].parameters, "t")
    /\ mapped.value[1].temperature = 21
    /\ mapped.value[2].temperature = 0
    /\ mapped.value[2].humidity = 60

\* C9: parameters with a name outside the six never make the call fail,
\* and an entry's record is the record of the same entry with those
\* parameters removed.
IsKnown(param) == param.name \in KnownNames

C9_UnknownNamesIgnored ==
    (Called /\ WellFormed(api_result)) =>
        /\ mapped.ok
        /\ \A i \in DOMAIN api_result.timeSeries :
              LET kept == SelectSeq(api_result.timeSeries[i].parameters, IsKnown)
                  alone == _get_forecast(Doc(<<Entry(kept)>>))
              IN  mapped.value[i] = alone.value[1]

\* an unknown parameter standing between two known ones
C9_Witness ==
    /\ Called /\ mapped.ok
    /\ Len(api_result.timeSeries) = 1
    /\ Len(api_result.timeSeries[1].parameters) = 3
    /\ api_result.timeSeries[1].parameters[1].name = "t"
    /\ api_result.timeSeries[1].parameters[2].name = "foo"
    /\ api_result.timeSeries[1].parameters[3].name = "Wsymb2"
    /\ mapped.value[1].temperature = 21
    /\ mapped.value[1].symbol = 1

(***************************************************************************)
(* Claims about the facade and the fetcher, under Spec.                    *)
(***************************************************************************)
Done(c) == calls[c].pc = "done"

\* C5: a finished call either returned the complete record sequence of the
\* document it fetched, or failed: a document without timeSeries, or with an
\* entry without parameters (also after entries that mapped), makes the call
\* fail with KeyError and no records; an unfinished call has produced nothing.
C5_NoPartialResult ==
    \A c \in DOMAIN calls :
        LET f == calls[c].fetched
            out == calls[c].outcome
        IN  IF ~Done(c) THEN out = NotCalled
            ELSE /\ (f.ok /\ WellFormed(f.value)) =>
                       /\ out.ok
                       /\ Len(out.value) = Len(f.value.timeSeries)
                 /\ (f.ok /\ ~WellFormed(f.value)) =>
                       /\ ~out.ok
                       /\ out.error = "KeyError"
                       /\ out.value = <<>>
                 /\ ~f.ok => (~out.ok /\ out.error = f.error /\ out.value = <<>>)

\* a blocking and a suspending call that fetched the document whose second
\* entry lacks parameters, and one without timeSeries
C5_Witness ==
    \E c, d \in DOMAIN calls :
        /\ Done(c) /\ Done(d)
        /\ calls[c].mode = "async" /\ calls[d].mode = "sync"
        /\ calls[c].fetched = Return(BrokenSecondEntryDoc)
        /\ calls[d].fetched = Return(DocNoTimeSeries)
        /\ calls[c].outcome = Raise("KeyError")
        /\ calls[d].outcome = Raise("KeyError")

\* C6: on the real fetcher, a suspending call whose response status is not
\* 200 has failed on the assertion without reading the body, and a
\* suspending call that returned records saw status 200.
C6_Non200FailsBeforeBody ==
    smhi.api.kind = "ShmiAPI" =>
        \A c \in DOMAIN calls :
            calls[c].mode = "async" =>
                /\ (calls[c].status # 0 /\ calls[c].status # 200) =>
                       /\ Done(c)
                       /\ ~calls[c].bodyRead
                       /\ ~calls[c].outcome.ok
                       /\ calls[c].outcome.error = "AssertionError"
                       /\ calls[c].outcome.value = <<>>
                /\ calls[c].outcome.ok => calls[c].status = 200

\* one suspending call refused a 202, another returned records after a 200
C6_Witness ==
    \E c, d \in DOMAIN calls :
        /\ calls[c].mode = "async" /\ calls[d].mode = "async"
        /\ calls[c].status = 202
        /\ calls[c].outcome = Raise("AssertionError")
        /\ calls[d].status = 200
        /\ calls[d].outcome.ok /\ Len(calls[d].outcome.value) = 2

\* C7: with a fetcher that returns the same document J from both of its
\* operations, a finished blocking call and a finished suspending call (with
\* or without a session) have ended alike: sequences of the same length,
\* equal field by field at every index (or the same failure).
C7_BlockingEqualsSuspending ==
    smhi.api.kind = "mock" =>
        \A c, d \in DOMAIN calls :
            (/\ calls[c].mode = "sync" /\ calls[d].mode = "async"
             /\ Done(c) /\ Done(d)) =>
                /\ calls[c].outcome.ok = calls[d].outcome.ok
                /\ calls[c].outcome.error = calls[d].outcome.error
                /\ Len(calls[c].outcome.value) = Len(calls[d].outcome.value)
                /\ \A i \in DOMAIN calls[c].outcome.value :
                     \A name \in KnownNames :
                        FieldValue(calls[c].outcome.value[i], name)
                            = FieldValue(calls[d].outcome.value[i], name)

C7_Witness ==
    /\ smhi.api = MockApi(TwoEntryDoc)
    /\ \E c, d \in DOMAIN calls :
        /\ calls[c].mode = "sync" /\ calls[d].mode = "async"
        /\ calls[d].session = CallerSession
        /\ calls[c].outcome.ok /\ calls[d].outcome.ok
        /\ Len(calls[d].outcome.value) = 2
        /\ calls[d].outcome.value[1].cloudiness = 38

\* C8: k calls have invoked the fetcher k times, the c-th invocation for the
\* c-th call, with the longitude and latitude given at construction; a
\* finished call's result is that of the document its own fetch returned;
\* the object's longitude, latitude and fetcher are as constructed.
C8_NoCaching ==
    /\ Len(fetchLog) = Len(calls)
    /\ smhi = constructed
    /\ \A c \in DOMAIN calls :
        /\ fetchLog[c].longitude = constructed.longitude
        /\ fetchLog[c].latitude = constructed.latitude
        /\ fetchLog[c].session = calls[c].session
        /\ fetchLog[c].method = (IF calls[c].mode = "sync"
                                 THEN "get_forecast_api"
                                 ELSE "async_get_forecast_api")
        /\ (Done(c) /\ calls[c].fetched.ok) =>
               calls[c].outcome = _get_forecast(calls[c].fetched.value)
        /\ (Done(c) /\ ~calls[c].fetched.ok) =>
               calls[c].outcome = calls[c].fetched

\* two finished calls whose fetches returned different documents
C8_Witness ==
    /\ Len(calls) = 2 /\ Len(fetchLog) = 2
    /\ Done(1) /\ Done(2)
    /\ calls[1].fetched = Return(TwoEntryDoc)
    /\ calls[2].fetched = Return(ExampleDoc)
    /\ Len(calls[1].outcome.value) = 2
    /\ Len(calls[2].outcome.value) = 1
    /\ fetchLog[2].longitude = "16.15" /\ fetchLog[2].latitude = "59.00"

\* C10: on the real fetcher, a suspending call given no session has a
\* private session that carries exactly its own GET, serves no other call
\* and is closed once the call has returned or failed; a call given a
\* session issues its GET on it, and that session is not closed or replaced.
C10_SessionOneShotOrShared ==
    smhi.api.kind = "ShmiAPI" =>
        \A c \in DOMAIN calls :
            calls[c].mode = "async" =>
                LET s == calls[c].used
                IN  IF calls[c].session = NoSession
                    THEN /\ s \in DOMAIN sessions
                         /\ sessions[s].owner = "private"
                         /\ Len(sessions[s].gets) = 1
                         /\ sessions[s].gets[1].call = c
                         /\ \A d \in DOMAIN calls : d # c => calls[d].used # s
                         /\ Done(c) => sessions[s].closed
                    ELSE /\ s = calls[c].session
                         /\ sessions[s].owner = "caller"
                         /\ \E g \in DOMAIN sessions[s].gets :
                                sessions[s].gets[g].call = c
                         /\ ~sessions[s].closed

\* What the code does keep of C10: everything but the closing; the private
\* session of a finished call is still open.
SessionUseWithoutClose ==
    smhi.api.kind = "ShmiAPI" =>
        \A c \in DOMAIN calls :
            calls[c].mode = "async" =>
                LET s == calls[c].used
                IN  IF calls[c].session = NoSession
                    THEN /\ s \in DOMAIN sessions
                         /\ sessions[s].owner = "private"
                         /\ Len(sessions[s].gets) = 1
                         /\ sessions[s].gets[1].call = c
                         /\ \A d \in DOMAIN calls : d # c => calls[d].used # s
                         /\ ~sessions[s].closed
                    ELSE /\ s = calls[c].session
                         /\ sessions[s].owner = "caller"
                         /\ \E g \in DOMAIN sessions[s].gets :
                                sessions[s].gets[g].call = c
                         /\ ~sessions[s].closed

=============================================================================
